---------------------------- MODULE Spec2Model ----------------------------
(***************************************************************************)
(* Availability and booking engine of the medical booking backend.         *)
(*                                                                         *)
(* Time is counted in minutes.  An instant is day * MinutesPerDay + the    *)
(* minute of the day; day 0 is a Monday.  Clock strings "HH:MM" are the    *)
(* minute of the day, which orders them as the strings are ordered.  The   *)
(* server clock is taken to be UTC, so the local day of an instant and the *)
(* day of its ISO string are the same day.                                 *)
(***************************************************************************)
EXTENDS Integers, Sequences, FiniteSets, TLC

VARIABLES
    appointments,        \* prisma.appointment rows, in insertion order
    schedules,           \* prisma.schedule rows (one doctor, one date)
    doctorSchedules,     \* prisma.doctorSchedule rows (weekly templates)
    scheduleExceptions,  \* prisma.scheduleException rows
    now,                 \* the server clock
    calls,               \* the service and controller calls in flight, and their results
    q                    \* the last availability computation: input and output

vars == <<appointments, schedules, doctorSchedules, scheduleExceptions, now, calls, q>>

\* The absent value of a nullable column; every use compares with NULL first.
NULL == 0 - 1

MinutesPerDay == 24 * 60

(***************************************************************************)
(* Time-range algebra (ScheduleService, private helpers)                   *)
(***************************************************************************)

Range(a, b) == [start |-> a, end |-> b]

\* The split case keeping only the part before the removal.
RemoveFromRangeNoTail(range, removeStart, removeEnd) ==
    IF range.end <= removeStart \/ range.start >= removeEnd
      THEN <<range>>
    ELSE IF removeStart <= range.start /\ removeEnd >= range.end
      THEN <<>>
    ELSE IF removeStart > range.start /\ removeEnd < range.end
      THEN <<Range(range.start, removeStart)>>
    ELSE IF removeStart <= range.start /\ removeEnd > range.start
      THEN <<Range(removeEnd, range.end)>>
    ELSE IF removeStart < range.end /\ removeEnd >= range.end
      THEN <<Range(range.start, removeStart)>>
    ELSE <<>>

\* The start-overlap case leaving a one-minute gap after the removal.
RemoveFromRangeGap(range, removeStart, removeEnd) ==
    IF range.end <= removeStart \/ range.start >= removeEnd
      THEN <<range>>
    ELSE IF removeStart <= range.start /\ removeEnd >= range.end
      THEN <<>>
    ELSE IF removeStart > range.start /\ removeEnd < range.end
      THEN <<Range(range.start, removeStart), Range(removeEnd, range.end)>>
    ELSE IF removeStart <= range.start /\ removeEnd > range.start
      THEN IF removeEnd + 1 < range.end THEN <<Range(removeEnd + 1, range.end)>> ELSE <<>>
    ELSE IF removeStart < range.end /\ removeEnd >= range.end
      THEN <<Range(range.start, removeStart)>>
    ELSE <<>>

\* One range of availableRanges with [removeStart, removeEnd) taken out.
RemoveFromRange(range, removeStart, removeEnd) ==
    IF range.end <= removeStart \/ range.start >= removeEnd
      THEN <<range>>
    ELSE IF removeStart <= range.start /\ removeEnd >= range.end
      THEN <<>>
    ELSE IF removeStart > range.start /\ removeEnd < range.end
      THEN <<Range(range.start, removeStart), Range(removeEnd, range.end)>>
    ELSE IF removeStart <= range.start /\ removeEnd > range.start
      THEN <<Range(removeEnd, range.end)>>
    ELSE IF removeStart < range.end /\ removeEnd >= range.end
      THEN <<Range(range.start, removeStart)>>
    ELSE <<>>

RECURSIVE _removeTimeRange(_, _, _)
_removeTimeRange(availableRanges, removeStart, removeEnd) ==
    IF availableRanges = <<>>
      THEN <<>>
      ELSE RemoveFromRange(Head(availableRanges), removeStart, removeEnd)
             \o _removeTimeRange(Tail(availableRanges), removeStart, removeEnd)

\* Minutes between two slot starts (the loop's fixed increment).
SlotStep == 15

Slot(a, b) == [startTime |-> a, endTime |-> b]

\* The loop stopping one step early (current < end).
RECURSIVE SlotsFromStrict(_, _, _)
SlotsFromStrict(current, end, duration) ==
    IF current < end
      THEN <<Slot(current, current + duration)>>
             \o SlotsFromStrict(current + SlotStep, end, duration)
      ELSE <<>>

\* The while loop of _generateTimeSlots: current runs up to end, the range's
\* end minus the duration.
RECURSIVE SlotsFrom(_, _, _)
SlotsFrom(current, end, duration) ==
    IF current <= end
      THEN <<Slot(current, current + duration)>>
             \o SlotsFrom(current + SlotStep, end, duration)
      ELSE <<>>

\* The loop bound left at the range's end (the duration not subtracted).
_generateTimeSlotsToEnd(startTime, endTime, duration) ==
    SlotsFrom(startTime, endTime, duration)

_generateTimeSlots(startTime, endTime, duration) ==
    SlotsFrom(startTime, endTime - duration, duration)

(***************************************************************************)
(* Dates                                                                   *)
(***************************************************************************)

DayOf(t) == t \div MinutesPerDay            \* toISOString().split("T")[0]
ClockOf(t) == t % MinutesPerDay             \* toTimeString().substring(0, 5)
StartOfDay(t) == DayOf(t) * MinutesPerDay   \* setHours(0, 0, 0, 0)
EndOfDay(t) == StartOfDay(t) + MinutesPerDay - 1  \* setHours(23, 59, 59, 999)
AtClock(t, clock) == StartOfDay(t) + clock  \* setHours(h, m, 0, 0) on a copy
GetDay(t) == (DayOf(t) + 1) % 7             \* Date.getDay(), day 0 a Monday

\* Every order in which a query without orderBy may return the rows of S.
Orders(S) ==
    {s \in [1..Cardinality(S) -> S] : \A i, j \in 1..Cardinality(S) : i # j => s[i] # s[j]}

RECURSIVE RemoveEach(_, _)
\* The for loops that take the ranges of removals out one after the other.
RemoveEach(availableRanges, removals) ==
    IF removals = <<>>
      THEN availableRanges
      ELSE RemoveEach(_removeTimeRange(availableRanges, Head(removals).start,
                                       Head(removals).end),
                      Tail(removals))

RECURSIVE FlatMap(_, _)
FlatMap(F(_), s) == IF s = <<>> THEN <<>> ELSE F(Head(s)) \o FlatMap(F, Tail(s))

SeqMap(F(_), s) == [i \in 1..Len(s) |-> F(s[i])]

(***************************************************************************)
(* Availability resolver (ScheduleService)                                 *)
(***************************************************************************)

\* The statuses the resolver's appointment queries leave out.
NonBlocking == {"CANCELLED", "NO_SHOW"}

ApptRange(a) == Range(a.startTime, a.endTime)

\* A partial exception's clock times put on the day of `date`.
ExceptionRange(date, e) == Range(AtClock(date, e.startTime), AtClock(date, e.endTime))

\* where-clause shared by the doctorSchedule queries: the effective window.
EffectiveAt(s, from, to) ==
    /\ (s.effectiveDate = NULL \/ s.effectiveDate <= from)
    /\ (s.expiryDate = NULL \/ s.expiryDate >= to)

\* getAvailableTimeSlots: prisma.doctorSchedule.findMany
SlotScheduleItems(doctorId, requestedDate) ==
    {s \in doctorSchedules :
        /\ s.doctorId = doctorId
        /\ s.dayOfWeek = GetDay(requestedDate)
        /\ EffectiveAt(s, requestedDate, requestedDate)
        /\ s.isAvailable}

\* getAvailableTimeSlots: prisma.scheduleException.findMany
SlotExceptions(doctorId, requestedDate) ==
    {e \in scheduleExceptions :
        /\ e.doctorId = doctorId
        /\ e.date >= requestedDate
        /\ e.date <= EndOfDay(requestedDate)}

\* getAvailableTimeSlots: prisma.appointment.findMany (row numbers)
SlotAppointments(doctorId, requestedDate) ==
    {i \in 1..Len(appointments) :
        /\ appointments[i].doctorId = doctorId
        /\ appointments[i].startTime >= requestedDate
        /\ appointments[i].endTime <= EndOfDay(requestedDate)
        /\ appointments[i].status \notin NonBlocking}

\* The free ranges one schedule period leaves on the day of `date`.
PeriodRanges(schedule, date, exceptionSeq, apptSeq) ==
    LET ex(e) == ExceptionRange(date, e)
        ap(i) == ApptRange(appointments[i])
    IN  RemoveEach(RemoveEach(<<Range(AtClock(date, schedule.startTime),
                                      AtClock(date, schedule.endTime))>>,
                              SeqMap(ex, exceptionSeq)),
                   SeqMap(ap, apptSeq))

\* The free ranges of getAvailableTimeSlots, the rows taken in the given orders.
AvailableRanges(scheduleSeq, exceptionSeq, apptSeq, requestedDate) ==
    LET partial == SelectSeq(exceptionSeq, LAMBDA e : ~e.isFullDay)
        period(s) == PeriodRanges(s, requestedDate, partial, apptSeq)
    IN  IF \E i \in 1..Len(exceptionSeq) : exceptionSeq[i].isFullDay
          THEN <<>>
          ELSE FlatMap(period, scheduleSeq)

\* The slots getAvailableTimeSlots returns.
AvailableSlots(scheduleSeq, exceptionSeq, apptSeq, requestedDate, duration) ==
    LET slots(r) == _generateTimeSlots(r.start, r.end, duration)
    IN  FlatMap(slots, AvailableRanges(scheduleSeq, exceptionSeq, apptSeq, requestedDate))

\* getDoctorSchedule: prisma.doctorSchedule.findMany
RangeWeeklySchedule(doctorId, start, end) ==
    {s \in doctorSchedules :
        /\ s.doctorId = doctorId
        /\ (s.effectiveDate = NULL \/ s.effectiveDate <= end)
        /\ (s.expiryDate = NULL \/ s.expiryDate >= start)
        /\ s.isAvailable}

\* getDoctorSchedule: prisma.scheduleException.findMany
RangeExceptions(doctorId, start, end) ==
    {e \in scheduleExceptions :
        e.doctorId = doctorId /\ e.date >= start /\ e.date <= end}

\* getDoctorSchedule: prisma.appointment.findMany (row numbers)
RangeAppointments(doctorId, start, end) ==
    {i \in 1..Len(appointments) :
        /\ appointments[i].doctorId = doctorId
        /\ appointments[i].startTime >= start
        /\ appointments[i].endTime <= end
        /\ appointments[i].status \notin NonBlocking}

AvailabilitySlot(r) ==
    [date |-> DayOf(r.start), startTime |-> r.start, endTime |-> r.end,
     duration |-> r.end - r.start]

\* One pass of the loop of _generateAvailabilitySlots: the day of currentDate.
DayAvailability(weeklySeq, exceptionSeq, apptSeq, currentDate) ==
    LET onDay(e) == DayOf(e.date) = DayOf(currentDate)
        daySchedules == SelectSeq(weeklySeq, LAMBDA s : s.dayOfWeek = GetDay(currentDate))
        partialExceptions == SelectSeq(exceptionSeq, LAMBDA e : onDay(e) /\ ~e.isFullDay)
        dayAppointments ==
            SelectSeq(apptSeq, LAMBDA i : DayOf(appointments[i].startTime) = DayOf(currentDate))
        period(s) == PeriodRanges(s, currentDate, partialExceptions, dayAppointments)
    IN  IF \E i \in 1..Len(exceptionSeq) : onDay(exceptionSeq[i]) /\ exceptionSeq[i].isFullDay
          THEN <<>>
          ELSE SeqMap(AvailabilitySlot, FlatMap(period, daySchedules))

RECURSIVE _generateAvailabilitySlots(_, _, _, _, _)
_generateAvailabilitySlots(weeklySeq, exceptionSeq, apptSeq, currentDate, endDate) ==
    IF currentDate <= endDate
      THEN DayAvailability(weeklySeq, exceptionSeq, apptSeq, currentDate)
             \o _generateAvailabilitySlots(weeklySeq, exceptionSeq, apptSeq,
                                           currentDate + MinutesPerDay, endDate)
      ELSE <<>>

\* isTimeSlotAvailable: prisma.doctorSchedule.findFirst finds a row
CoveringSchedule(doctorId, start, end) ==
    \E s \in doctorSchedules :
        /\ s.doctorId = doctorId
        /\ s.dayOfWeek = GetDay(start)
        /\ s.startTime <= ClockOf(start)
        /\ s.endTime >= ClockOf(end)
        /\ EffectiveAt(s, start, end)
        /\ s.isAvailable

\* isTimeSlotAvailable: the exception checks
BlockedByException(doctorId, start, end) ==
    \E e \in scheduleExceptions :
        /\ e.doctorId = doctorId
        /\ e.date = StartOfDay(start)
        /\ \/ e.isFullDay
           \/ ~(end <= AtClock(start, e.startTime) \/ start >= AtClock(start, e.endTime))

\* isTimeSlotAvailable: prisma.appointment.findFirst finds a row
OverlappingAppointment(doctorId, start, end) ==
    \E i \in 1..Len(appointments) :
        /\ appointments[i].doctorId = doctorId
        /\ appointments[i].status \notin NonBlocking
        /\ appointments[i].startTime < end
        /\ appointments[i].endTime > start

isTimeSlotAvailable(doctorId, start, end) ==
    /\ CoveringSchedule(doctorId, start, end)
    /\ ~BlockedByException(doctorId, start, end)
    /\ ~OverlappingAppointment(doctorId, start, end)

(***************************************************************************)
(* DoctorService.getDoctorAvailability                                     *)
(***************************************************************************)

DefaultSlotDuration == 30

\* prisma.schedule.findFirst: the rows it may return
DaySchedules(doctorId, date) ==
    {s \in schedules : s.doctorId = doctorId /\ s.date = DayOf(date)}

\* prisma.appointment.findMany of getDoctorAvailability (row numbers)
DoctorDayAppointments(doctorId, date) ==
    {i \in 1..Len(appointments) :
        /\ appointments[i].doctorId = doctorId
        /\ appointments[i].startTime >= StartOfDay(date)
        /\ appointments[i].startTime < StartOfDay(date) + MinutesPerDay
        /\ appointments[i].status # "CANCELLED"}

IsBooked(appts, currentTime, slotEndTime) ==
    \E i \in appts :
        LET appointmentStart == appointments[i].startTime
            appointmentEnd == appointments[i].endTime
        IN  \/ currentTime >= appointmentStart /\ currentTime < appointmentEnd
            \/ slotEndTime > appointmentStart /\ slotEndTime <= appointmentEnd
            \/ currentTime <= appointmentStart /\ slotEndTime >= appointmentEnd

RECURSIVE DoctorSlotsFrom(_, _, _, _)
DoctorSlotsFrom(currentTime, endTime, slotDuration, appts) ==
    IF currentTime < endTime
      THEN (IF IsBooked(appts, currentTime, currentTime + slotDuration)
              THEN <<>>
              ELSE <<Slot(currentTime, currentTime + slotDuration)>>)
             \o DoctorSlotsFrom(currentTime + slotDuration, endTime, slotDuration, appts)
      ELSE <<>>

getDoctorAvailability(schedule, date, appts) ==
    DoctorSlotsFrom(AtClock(date, schedule.startTime), AtClock(date, schedule.endTime),
                    IF schedule.slotDuration = NULL THEN DefaultSlotDuration
                                                    ELSE schedule.slotDuration,
                    appts)

(***************************************************************************)
(* Bounds of the checked instances                                         *)
(***************************************************************************)

MaxT == 5           \* range bounds of the algebra instances lie in 0..MaxT
MaxRanges == 2      \* ranges in a list handed to _removeTimeRange
MaxRemovals == 2    \* exceptions and appointments taken out of one period
MaxLen == 50        \* length of a range handed to _generateTimeSlots
MaxDuration == 35   \* slot duration handed to _generateTimeSlots

Instants == 0..MaxT

ProperRanges == {r \in [start : Instants, end : Instants] : r.start < r.end}

\* Removal ranges: removeStart <= removeEnd.
RemovalRanges == {r \in [start : Instants, end : Instants] : r.start <= r.end}

SeqsUpTo(S, n) == UNION {[1..k -> S] : k \in 0..n}

IsSortedDisjoint(rs) ==
    /\ \A i \in 1..Len(rs) : rs[i].start < rs[i].end
    /\ \A i \in 1..Len(rs) - 1 : rs[i].end <= rs[i + 1].start

SortedDisjointLists == {rs \in SeqsUpTo(ProperRanges, MaxRanges) : IsSortedDisjoint(rs)}

\* The instants a list of ranges covers, each range half-open.
Points(rs) == {t \in Instants : \E i \in 1..Len(rs) : rs[i].start <= t /\ t < rs[i].end}

NoQuery == [op |-> "none", phase |-> "return"]

IdleStores ==
    /\ appointments = <<>>
    /\ schedules = {}
    /\ doctorSchedules = {}
    /\ scheduleExceptions = {}
    /\ now = 0
    /\ calls = <<>>

(***************************************************************************)
(* The time-range algebra applied to drawn arguments                       *)
(***************************************************************************)

RemoveCall(rs, x) ==
    [op |-> "_removeTimeRange", phase |-> "call", availableRanges |-> rs,
     removeStart |-> x.start, removeEnd |-> x.end, result |-> <<>>]

RemoveEachCall(r, xs, k) ==
    [op |-> "removeEach", phase |-> "call", period |-> r, exceptions |-> SubSeq(xs, 1, k),
     appts |-> SubSeq(xs, k + 1, Len(xs)), result |-> <<>>]

SlotsCall(t, len, d) ==
    [op |-> "_generateTimeSlots", phase |-> "call", startTime |-> t, endTime |-> t + len,
     duration |-> d, result |-> <<>>]

InitAlgebra ==
    /\ IdleStores
    /\ \/ \E rs \in SortedDisjointLists, x \in RemovalRanges : q = RemoveCall(rs, x)
       \/ \E r \in ProperRanges, xs \in SeqsUpTo(ProperRanges, MaxRemovals) :
             \E k \in 0..Len(xs) : q = RemoveEachCall(r, xs, k)
       \/ \E t \in 0..1, len \in 0..MaxLen, d \in 0..MaxDuration : q = SlotsCall(t, len, d)

RemoveTimeRange ==
    /\ q.op = "_removeTimeRange" /\ q.phase = "call"
    /\ q' = [q EXCEPT !.phase = "return",
                      !.result = _removeTimeRange(q.availableRanges, q.removeStart, q.removeEnd)]
    /\ UNCHANGED <<appointments, schedules, doctorSchedules, scheduleExceptions, now, calls>>

\* The two removal loops of getAvailableTimeSlots on one schedule period.
RemoveExceptionsThenAppointments ==
    /\ q.op = "removeEach" /\ q.phase = "call"
    /\ q' = [q EXCEPT !.phase = "return",
                      !.result = RemoveEach(RemoveEach(<<q.period>>, q.exceptions), q.appts)]
    /\ UNCHANGED <<appointments, schedules, doctorSchedules, scheduleExceptions, now, calls>>

GenerateTimeSlots ==
    /\ q.op = "_generateTimeSlots" /\ q.phase = "call"
    /\ q' = [q EXCEPT !.phase = "return",
                      !.result = _generateTimeSlots(q.startTime, q.endTime, q.duration)]
    /\ UNCHANGED <<appointments, schedules, doctorSchedules, scheduleExceptions, now, calls>>

NextAlgebra == RemoveTimeRange \/ RemoveExceptionsThenAppointments \/ GenerateTimeSlots

SpecAlgebra == InitAlgebra /\ [][NextAlgebra]_vars

Returned(op) == q.op = op /\ q.phase = "return"

\* C3: _removeTimeRange on a sorted disjoint list and a removal range returns a
\* sorted disjoint list of non-empty ranges covering exactly the instants of the
\* list that lie outside the removal range.
C3_SubtractionCorrect ==
    Returned("_removeTimeRange") =>
        /\ IsSortedDisjoint(q.result)
        /\ Points(q.result) =
             {t \in Points(q.availableRanges) : ~(q.removeStart <= t /\ t < q.removeEnd)}

\* C3 witness: a call has split the first of two ranges in two and kept the second.
C3_Witness ==
    /\ Returned("_removeTimeRange")
    /\ Len(q.availableRanges) = 2
    /\ Len(q.result) = 3
    /\ q.removeStart > q.availableRanges[1].start
    /\ q.removeEnd < q.availableRanges[1].end
    /\ q.removeEnd > q.removeStart

Permute(xs, p) == [i \in 1..Len(xs) |-> xs[p[i]]]

\* C4: the free ranges left after the exceptions and then the appointments are
\* taken out are those left when the same ranges are taken out in any other order.
C4_OrderIndependent ==
    Returned("removeEach") =>
        LET xs == q.exceptions \o q.appts
        IN  \A p \in Permutations(1..Len(xs)) :
                RemoveEach(<<q.period>>, Permute(xs, p)) = q.result

\* C4 witness: an exception and an appointment that overlap each other have been
\* taken out of a period they both cut.
C4_Witness ==
    /\ Returned("removeEach")
    /\ Len(q.exceptions) = 1 /\ Len(q.appts) = 1
    /\ q.exceptions[1].start < q.appts[1].start
    /\ q.appts[1].start < q.exceptions[1].end
    /\ q.exceptions[1].end < q.appts[1].end
    /\ q.period.start < q.exceptions[1].start
    /\ q.appts[1].end < q.period.end
    /\ Len(q.result) = 2

\* C5: a range of length L yields floor((L - d) / SlotStep) + 1 slots when L >= d
\* and none when L < d, the k-th slot starting k steps after the range's start.
C5_SlotCount ==
    Returned("_generateTimeSlots") =>
        LET L == q.endTime - q.startTime
            d == q.duration
        IN  /\ Len(q.result) = IF L >= d THEN ((L - d) \div SlotStep) + 1 ELSE 0
            /\ \A k \in 1..Len(q.result) :
                  q.result[k] = Slot(q.startTime + (k - 1) * SlotStep,
                                     q.startTime + (k - 1) * SlotStep + d)

\* C5 witness: a range whose length leaves a remainder has been sliced in three.
C5_Witness ==
    /\ Returned("_generateTimeSlots")
    /\ Len(q.result) = 3
    /\ (q.endTime - q.startTime - q.duration) % SlotStep # 0

(***************************************************************************)
(* The resolver applied to drawn stores                                    *)
(***************************************************************************)

MaxWeekly == 2      \* doctorSchedule rows in a drawn store
MaxExceptions == 2  \* scheduleException rows in a drawn store
MaxStored == 1      \* appointment rows in a drawn store

Doctors == {"d1", "d2"}
Days == {0, 1}      \* a Monday and the Tuesday after it
Statuses == {"PENDING", "CONFIRMED", "CANCELLED", "COMPLETED", "NO_SHOW"}

Clock(h, m) == h * 60 + m
At(day, h, m) == day * MinutesPerDay + Clock(h, m)

WeeklyRow(doctorId, dayOfWeek, startTime, endTime, isAvailable, effectiveDate, expiryDate) ==
    [doctorId |-> doctorId, dayOfWeek |-> dayOfWeek, startTime |-> startTime,
     endTime |-> endTime, isAvailable |-> isAvailable,
     effectiveDate |-> effectiveDate, expiryDate |-> expiryDate]

ExceptionRow(doctorId, date, isFullDay, startTime, endTime) ==
    [doctorId |-> doctorId, date |-> date, isFullDay |-> isFullDay,
     startTime |-> startTime, endTime |-> endTime]

\* A text column holding null.
NullText == "<null>"

AppointmentRow(doctorId, startTime, endTime, status) ==
    [doctorId |-> doctorId, startTime |-> startTime, endTime |-> endTime, status |-> status,
     cancellationReason |-> NullText, cancelledAt |-> NULL]

ScheduleRow(doctorId, date, startTime, endTime, isAvailable, slotDuration) ==
    [doctorId |-> doctorId, date |-> date, startTime |-> startTime, endTime |-> endTime,
     isAvailable |-> isAvailable, slotDuration |-> slotDuration]

\* Rows setDoctorSchedule stores (startTime < endTime).
WeeklyCandidates ==
    {WeeklyRow(d, GetDay(At(day, 0, 0)), Clock(9, 0), Clock(17, 0), TRUE, NULL, NULL) :
        d \in Doctors, day \in Days}
    \cup {WeeklyRow("d1", 1, Clock(9, 0), Clock(12, 0), TRUE, NULL, NULL),
          WeeklyRow("d1", 1, Clock(9, 0), Clock(17, 0), FALSE, NULL, NULL),
          WeeklyRow("d1", 1, Clock(9, 0), Clock(17, 0), TRUE, At(7, 0, 0), NULL),
          WeeklyRow("d1", 1, Clock(13, 0), Clock(17, 0), TRUE, At(1, 0, 0), NULL)}

\* Rows addScheduleException stores.
ExceptionCandidates ==
    {ExceptionRow("d1", At(day, 0, 0), TRUE, NULL, NULL) : day \in Days}
    \cup {ExceptionRow("d2", At(0, 0, 0), TRUE, NULL, NULL),
          ExceptionRow("d1", At(0, 0, 0), FALSE, Clock(12, 0), Clock(13, 0)),
          ExceptionRow("d1", At(0, 0, 0), FALSE, Clock(11, 0), Clock(10, 0))}

\* Rows createAppointment stores.
StoredCandidates ==
    {AppointmentRow(d, At(0, 10, 0), At(0, 10, 30), st) :
        d \in Doctors, st \in {"CONFIRMED", "CANCELLED", "NO_SHOW"}}
    \cup {AppointmentRow("d1", At(1, 10, 0), At(1, 10, 30), "PENDING"),
          AppointmentRow("d1", At(0, 7, 30), At(0, 9, 30), "CONFIRMED")}

\* Rows of prisma.schedule.
ScheduleCandidates ==
    {ScheduleRow(d, day, Clock(9, 0), end, TRUE, dur) :
        d \in Doctors, day \in Days, end \in {Clock(12, 15), Clock(17, 0)}, dur \in {NULL, 45}}

RECURSIVE SubsetsUpTo(_, _)
SubsetsUpTo(S, n) ==
    IF n = 0 THEN {{}}
    ELSE LET P == SubsetsUpTo(S, n - 1) IN P \cup {p \cup {x} : p \in P, x \in S}

QueryDates == {At(day, h, 0) : day \in Days, h \in {0, 8}}
QueryEnds == {EndOfDay(At(day, 0, 0)) : day \in Days}
QueryDurations == {30, 45}
QueryIntervals ==
    {Range(At(day, 10, 0) + a, At(day, 10, 0) + a + 30) : day \in Days, a \in {0, 15, 30}}
    \cup {Range(At(0, 12, 30), At(0, 13, 30)), Range(At(0, 16, 45), At(0, 17, 15))}

InitResolve ==
    /\ now = 0
    /\ calls = <<>>
    /\ q = NoQuery
    /\ appointments \in SeqsUpTo(StoredCandidates, MaxStored)
    /\ \/ /\ doctorSchedules \in SubsetsUpTo(WeeklyCandidates, MaxWeekly)
          /\ scheduleExceptions \in SubsetsUpTo(ExceptionCandidates, MaxExceptions)
          /\ schedules = {}
       \/ /\ doctorSchedules = {}
          /\ scheduleExceptions = {}
          /\ schedules \in SubsetsUpTo(ScheduleCandidates, 1) \ {{}}

Stores == <<appointments, schedules, doctorSchedules, scheduleExceptions, now, calls>>

GetAvailableTimeSlots(doctorId, date, duration) ==
    /\ q = NoQuery
    /\ \E scheduleSeq \in Orders(SlotScheduleItems(doctorId, StartOfDay(date))),
          exceptionSeq \in Orders(SlotExceptions(doctorId, StartOfDay(date))),
          apptSeq \in Orders(SlotAppointments(doctorId, StartOfDay(date))) :
            q' = [op |-> "getAvailableTimeSlots", phase |-> "return",
                  doctorId |-> doctorId, date |-> date, duration |-> duration,
                  ranges |-> AvailableRanges(scheduleSeq, exceptionSeq, apptSeq,
                                             StartOfDay(date)),
                  result |-> AvailableSlots(scheduleSeq, exceptionSeq, apptSeq,
                                            StartOfDay(date), duration)]
    /\ UNCHANGED Stores

GetDoctorSchedule(doctorId, startDate, endDate) ==
    /\ q = NoQuery
    /\ \E weeklySeq \in Orders(RangeWeeklySchedule(doctorId, startDate, endDate)),
          exceptionSeq \in Orders(RangeExceptions(doctorId, startDate, endDate)),
          apptSeq \in Orders(RangeAppointments(doctorId, startDate, endDate)) :
            q' = [op |-> "getDoctorSchedule", phase |-> "return",
                  doctorId |-> doctorId, startDate |-> startDate, endDate |-> endDate,
                  result |-> _generateAvailabilitySlots(weeklySeq, exceptionSeq, apptSeq,
                                                        startDate, endDate)]
    /\ UNCHANGED Stores

IsTimeSlotAvailable(doctorId, startTime, endTime) ==
    /\ q = NoQuery
    /\ q' = [op |-> "isTimeSlotAvailable", phase |-> "return", doctorId |-> doctorId,
             startTime |-> startTime, endTime |-> endTime,
             result |-> isTimeSlotAvailable(doctorId, startTime, endTime)]
    /\ UNCHANGED Stores

GetDoctorAvailability(doctorId, date) ==
    /\ q = NoQuery
    /\ \/ /\ DaySchedules(doctorId, date) = {}
          /\ q' = [op |-> "getDoctorAvailability", phase |-> "return",
                   doctorId |-> doctorId, date |-> date, found |-> FALSE, result |-> <<>>]
       \/ \E schedule \in DaySchedules(doctorId, date) :
             q' = [op |-> "getDoctorAvailability", phase |-> "return",
                   doctorId |-> doctorId, date |-> date, found |-> TRUE,
                   schedule |-> schedule,
                   result |-> getDoctorAvailability(schedule, date,
                                                    DoctorDayAppointments(doctorId, date))]
    /\ UNCHANGED Stores

NextResolve ==
    \/ \E d \in Doctors, date \in QueryDates, dur \in QueryDurations :
          GetAvailableTimeSlots(d, date, dur)
    \/ \E d \in Doctors, startDate \in QueryDates, endDate \in QueryEnds :
          startDate <= endDate /\ GetDoctorSchedule(d, startDate, endDate)
    \/ \E d \in Doctors, r \in QueryIntervals : IsTimeSlotAvailable(d, r.start, r.end)
    \/ \E d \in Doctors, date \in QueryDates : GetDoctorAvailability(d, date)

SpecResolve == InitResolve /\ [][NextResolve]_vars

InRange(slot, lo, hi, d) ==
    lo <= slot.startTime /\ slot.endTime = slot.startTime + d /\ slot.endTime <= hi

SlotLength(schedule) ==
    IF schedule.slotDuration = NULL THEN DefaultSlotDuration ELSE schedule.slotDuration

\* C6: no slot an availability operation returns crosses the boundary of the range
\* it was cut from: it starts at or after the range's start, is one duration long
\* and ends at or before the range's end.
C6_NoOverhangingSlot ==
    /\ Returned("_generateTimeSlots") =>
          \A k \in 1..Len(q.result) : InRange(q.result[k], q.startTime, q.endTime, q.duration)
    /\ Returned("getAvailableTimeSlots") =>
          \A k \in 1..Len(q.result) :
              \E j \in 1..Len(q.ranges) :
                  InRange(q.result[k], q.ranges[j].start, q.ranges[j].end, q.duration)
    /\ (Returned("getDoctorAvailability") /\ q.found) =>
          \A k \in 1..Len(q.result) :
              InRange(q.result[k], AtClock(q.date, q.schedule.startTime),
                      AtClock(q.date, q.schedule.endTime), SlotLength(q.schedule))

\* The store of the Monday scenario as getAvailableTimeSlots reads it: doctor d1
\* works 09:00-17:00, has the partial exception 12:00-13:00 and no appointment
\* that occupies time on that day.
MondayScenario ==
    /\ Returned("getAvailableTimeSlots")
    /\ q.doctorId = "d1" /\ DayOf(q.date) = 0 /\ q.duration = 30
    /\ SlotScheduleItems("d1", 0) =
         {WeeklyRow("d1", 1, Clock(9, 0), Clock(17, 0), TRUE, NULL, NULL)}
    /\ SlotExceptions("d1", 0) =
         {ExceptionRow("d1", 0, FALSE, Clock(12, 0), Clock(13, 0))}
    /\ SlotAppointments("d1", 0) = {}

OutsideLunch(slot) == slot.endTime <= Clock(12, 0) \/ slot.startTime >= Clock(13, 0)

FullDayOn(doctorId, day) ==
    \E e \in scheduleExceptions : e.doctorId = doctorId /\ DayOf(e.date) = day /\ e.isFullDay

\* C8: a date with a full-day exception has no availability: getAvailableTimeSlots
\* returns nothing for it, getDoctorSchedule returns no range on it, and
\* isTimeSlotAvailable is false for every interval that starts on it.
C8_FullDayExceptionBlocks ==
    /\ (Returned("getAvailableTimeSlots") /\ FullDayOn(q.doctorId, DayOf(q.date))) =>
          q.result = <<>> /\ q.ranges = <<>>
    /\ Returned("getDoctorSchedule") =>
          \A k \in 1..Len(q.result) : ~FullDayOn(q.doctorId, q.result[k].date)
    /\ (Returned("isTimeSlotAvailable") /\ FullDayOn(q.doctorId, DayOf(q.startTime))) =>
          q.result = FALSE

(***************************************************************************)
(* Booking (AppointmentService.createAppointment)                          *)
(***************************************************************************)

\* The rows the doctor, service and patient lookups find.
KnownDoctors == Doctors
KnownServices == {"s1"}
KnownPatients == {"p1"}

\* The checks made before the first store read; "" is an absent field.
Validate(req) ==
    IF req.patientId = "" \/ req.doctorId = "" \/ req.serviceId = ""
      THEN "MissingFields"
    ELSE IF req.startTime >= req.endTime THEN "InvalidInterval"
    ELSE IF req.startTime < now THEN "PastDate"
    ELSE IF req.doctorId \notin KnownDoctors THEN "DoctorNotFound"
    ELSE IF req.serviceId \notin KnownServices THEN "ServiceNotFound"
    ELSE IF req.patientId \notin KnownPatients THEN "PatientNotFound"
    ELSE "ok"

\* The conflict query with its first clause closed at the end (endTime gte).
ConflictClausesClosed(a, startTime, endTime) ==
    \/ a.startTime <= startTime /\ a.endTime >= startTime
    \/ a.startTime < endTime /\ a.endTime >= endTime
    \/ a.startTime >= startTime /\ a.endTime <= endTime

\* The OR of the three where-clauses of the conflict query, on one row.
ConflictClauses(a, startTime, endTime) ==
    \/ a.startTime <= startTime /\ a.endTime > startTime
    \/ a.startTime < endTime /\ a.endTime >= endTime
    \/ a.startTime >= startTime /\ a.endTime <= endTime

\* createAppointment: prisma.appointment.findFirst finds a row
conflictingAppointment(doctorId, startTime, endTime) ==
    \E i \in 1..Len(appointments) :
        /\ appointments[i].doctorId = doctorId
        /\ appointments[i].status # "CANCELLED"
        /\ ConflictClauses(appointments[i], startTime, endTime)

\* createAppointment: the rows prisma.schedule.findFirst may return
BookingSchedules(doctorId, startTime) ==
    {s \in schedules : s.doctorId = doctorId /\ s.date = DayOf(startTime)}

\* createAppointment: the appointment lies inside the schedule row's hours
WithinSchedule(schedule, startTime, endTime) ==
    ~(startTime < AtClock(startTime, schedule.startTime)
        \/ endTime > AtClock(startTime, schedule.endTime))

MaxAppointments == 2   \* appointment rows the store may hold

Procs == {"c1", "c2"}

\* A finished call: what the caller got, the notifications the notification
\* service sent for it, and whether a send threw.
Done(result, notified, threw) ==
    [pc |-> "idle", result |-> result, notified |-> notified, threw |-> threw]

Idle(result) == Done(result, <<>>, FALSE)

Running(pc, req) == [pc |-> pc, req |-> req]

Pending(p, pc) == calls[p].pc = pc

BookingRequest(doctorId, patientId, serviceId, startTime, endTime, status) ==
    [doctorId |-> doctorId, patientId |-> patientId, serviceId |-> serviceId,
     startTime |-> startTime, endTime |-> endTime, status |-> status]

\* The requests the callers make.  The clock stands at 08:00 of day 0.
Requests ==
    {BookingRequest("d1", "p1", "s1", At(0, 10, 0) + a, At(0, 10, 0) + a + 30, "CONFIRMED") :
        a \in {0, 15, 30}}
    \cup {BookingRequest("d1", "p1", "s1", At(0, 10, 0), At(0, 10, 30), "CANCELLED"),
          BookingRequest("d2", "p1", "s1", At(0, 10, 0), At(0, 10, 30), "PENDING"),
          BookingRequest("d1", "p1", "s1", At(0, 16, 45), At(0, 17, 15), "PENDING"),
          BookingRequest("d1", "p1", "s1", At(0, 10, 30), At(0, 10, 0), "PENDING"),
          BookingRequest("d1", "p1", "s1", At(0, 7, 0), At(0, 7, 30), "PENDING"),
          BookingRequest("d1", "", "s1", At(0, 10, 0), At(0, 10, 30), "PENDING"),
          BookingRequest("d9", "p1", "s1", At(0, 10, 0), At(0, 10, 30), "PENDING"),
          BookingRequest("d1", "p1", "s9", At(0, 10, 0), At(0, 10, 30), "PENDING"),
          BookingRequest("d1", "p9", "s1", At(0, 10, 0), At(0, 10, 30), "PENDING")}

Init ==
    /\ appointments = <<>>
    /\ schedules = {}
    /\ doctorSchedules = {}
    /\ scheduleExceptions = {}
    /\ now = At(0, 8, 0)
    /\ calls = [p \in Procs |-> Idle("none")]
    /\ q = NoQuery

\* createAppointment up to its first read of the appointment store.
BeginCreate(p, req) ==
    /\ Pending(p, "idle")
    /\ calls' = [calls EXCEPT ![p] = IF Validate(req) = "ok"
                                       THEN Running("findConflict", req)
                                       ELSE Idle(Validate(req))]
    /\ UNCHANGED <<appointments, schedules, doctorSchedules, scheduleExceptions, now, q>>

\* await prisma.appointment.findFirst and the throw that may follow it
FindConflict(p) ==
    /\ Pending(p, "findConflict")
    /\ LET req == calls[p].req
       IN  calls' = [calls EXCEPT ![p] =
                        IF conflictingAppointment(req.doctorId, req.startTime, req.endTime)
                          THEN Idle("AppointmentConflict")
                          ELSE Running("findSchedule", req)]
    /\ UNCHANGED <<appointments, schedules, doctorSchedules, scheduleExceptions, now, q>>

\* The schedule check made after the row has been stored.
FindScheduleAfterInsert(p) ==
    /\ Pending(p, "findSchedule")
    /\ LET req == calls[p].req
           rows == BookingSchedules(req.doctorId, req.startTime)
       IN  /\ appointments' =
                 IF Len(appointments) < MaxAppointments
                   THEN Append(appointments,
                               AppointmentRow(req.doctorId, req.startTime, req.endTime,
                                              req.status))
                   ELSE appointments
           /\ \/ /\ rows = {}
                 /\ calls' = [calls EXCEPT ![p] = Idle("OutsideWorkingHours")]
              \/ \E schedule \in rows :
                    calls' = [calls EXCEPT ![p] =
                                IF WithinSchedule(schedule, req.startTime, req.endTime)
                                  THEN Running("create", req)
                                  ELSE Idle("OutsideWorkingHours")]
    /\ UNCHANGED <<schedules, doctorSchedules, scheduleExceptions, now, q>>

\* await prisma.schedule.findFirst and the throws that may follow it
FindSchedule(p) ==
    /\ Pending(p, "findSchedule")
    /\ LET req == calls[p].req
           rows == BookingSchedules(req.doctorId, req.startTime)
       IN  \/ /\ rows = {}
              /\ calls' = [calls EXCEPT ![p] = Idle("OutsideWorkingHours")]
           \/ \E schedule \in rows :
                 calls' = [calls EXCEPT ![p] =
                             IF WithinSchedule(schedule, req.startTime, req.endTime)
                               THEN Running("create", req)
                               ELSE Idle("OutsideWorkingHours")]
    /\ UNCHANGED <<appointments, schedules, doctorSchedules, scheduleExceptions, now, q>>

\* await prisma.appointment.create, the notification block and the return.
\* sendAppointmentConfirmation(appointment) is called with the e-mail address
\* first, so it throws on practice.name; the catch swallows it.
CreateRow(p) ==
    /\ Pending(p, "create")
    /\ Len(appointments) < MaxAppointments
    /\ LET req == calls[p].req
       IN  appointments' = Append(appointments,
                                  AppointmentRow(req.doctorId, req.startTime, req.endTime,
                                                 req.status))
    /\ calls' = [calls EXCEPT ![p] = Done("created", <<>>, TRUE)]
    /\ UNCHANGED <<schedules, doctorSchedules, scheduleExceptions, now, q>>

\* createOrUpdateSchedule with one slot: the doctor's rows of the date replaced
CreateOrUpdateSchedule(doctorId, date, isAvailable) ==
    /\ schedules' = {s \in schedules : ~(s.doctorId = doctorId /\ s.date = date)}
                      \cup {ScheduleRow(doctorId, date, Clock(9, 0), Clock(17, 0),
                                        isAvailable, NULL)}
    /\ schedules' # schedules
    /\ UNCHANGED <<appointments, doctorSchedules, scheduleExceptions, now, calls, q>>

\* setDoctorSchedule with one item, startTime < endTime
SetDoctorSchedule(doctorId) ==
    /\ doctorSchedules' = doctorSchedules
          \cup {WeeklyRow(doctorId, 1, Clock(9, 0), Clock(17, 0), TRUE, NULL, NULL)}
    /\ doctorSchedules' # doctorSchedules
    /\ UNCHANGED <<appointments, schedules, scheduleExceptions, now, calls, q>>

AddScheduleException(e) ==
    /\ e \notin scheduleExceptions
    /\ scheduleExceptions' = scheduleExceptions \cup {e}
    /\ UNCHANGED <<appointments, schedules, doctorSchedules, now, calls, q>>

\* The exceptions the practice adds: a day off and a block 10:00-10:20.
AddedExceptions ==
    {ExceptionRow("d1", At(0, 0, 0), TRUE, NULL, NULL),
     ExceptionRow("d1", At(0, 0, 0), FALSE, Clock(10, 0), Clock(10, 20))}

\* The day schedules the practice posts (09:00-17:00 each).
PostedSchedules ==
    {[doctorId |-> "d1", date |-> 0, isAvailable |-> TRUE],
     [doctorId |-> "d1", date |-> 0, isAvailable |-> FALSE],
     [doctorId |-> "d2", date |-> 0, isAvailable |-> TRUE]}

Next ==
    \/ \E p \in Procs, req \in Requests : BeginCreate(p, req)
    \/ \E p \in Procs : FindConflict(p)
    \/ \E p \in Procs : FindSchedule(p)
    \/ \E p \in Procs : CreateRow(p)
    \/ \E slot \in PostedSchedules :
          CreateOrUpdateSchedule(slot.doctorId, slot.date, slot.isAvailable)
    \/ SetDoctorSchedule("d1")
    \/ \E e \in AddedExceptions : AddScheduleException(e)

Spec == Init /\ [][Next]_vars

(***************************************************************************)
(* Properties of booking                                                   *)
(***************************************************************************)

\* Half-open intervals [s, e) and [S, E) share an instant.
Overlap(s, e, S, E) == s < E /\ S < e

\* The step in which createAppointment of p stores its row.
Commits(p) == Pending(p, "create") /\ calls'[p].pc = "idle" /\ calls'[p].result = "created"

\* C1: whatever the interleaving of two createAppointment calls, the store
\* never holds two non-cancelled appointments of one doctor that overlap.
C1_NoDoubleBooking ==
    \A i, j \in 1..Len(appointments) :
        (/\ i < j
         /\ appointments[i].doctorId = appointments[j].doctorId
         /\ appointments[i].status # "CANCELLED"
         /\ appointments[j].status # "CANCELLED") =>
            ~Overlap(appointments[i].startTime, appointments[i].endTime,
                     appointments[j].startTime, appointments[j].endTime)

\* C2: the conflict check of createAppointment rejects the request [S, E)
\* with the appointment conflict exactly when the doctor has a non-cancelled
\* appointment [s, e) with s < E and S < e; touching intervals do not conflict.
C2_ConflictIffOverlap ==
    [][\A p \in Procs :
          (Pending(p, "findConflict") /\ calls'[p] # calls[p]) =>
              ((calls'[p] = Idle("AppointmentConflict")) <=>
                  \E i \in 1..Len(appointments) :
                      /\ appointments[i].doctorId = calls[p].req.doctorId
                      /\ appointments[i].status # "CANCELLED"
                      /\ Overlap(appointments[i].startTime, appointments[i].endTime,
                                 calls[p].req.startTime, calls[p].req.endTime))]_vars

\* C2: 10:00-10:30 and 10:30-11:00 of d1 are both stored, and a call has been
\* turned down for a conflict.
C2_Witness ==
    /\ \E i, j \in 1..Len(appointments) :
          /\ appointments[i] = AppointmentRow("d1", At(0, 10, 0), At(0, 10, 30), "CONFIRMED")
          /\ appointments[j] = AppointmentRow("d1", At(0, 10, 30), At(0, 11, 0), "CONFIRMED")
    /\ \E p \in Procs : calls[p] = Idle("AppointmentConflict")

\* An available schedule entry of the doctor covers the whole of [start, end):
\* a weekly entry effective that day, or a day schedule row of that date.
CoveredByAvailableEntry(doctorId, start, end) ==
    \/ CoveringSchedule(doctorId, start, end)
    \/ \E s \in BookingSchedules(doctorId, start) :
          s.isAvailable /\ WithinSchedule(s, start, end)

\* C9: createAppointment stores a row only if one available schedule entry of
\* the doctor for that day covers the whole interval.
C9_CommitsOnlyInsideWorkingHours ==
    [][\A p \in Procs :
          Commits(p) => CoveredByAvailableEntry(calls[p].req.doctorId,
                                                calls[p].req.startTime,
                                                calls[p].req.endTime)]_vars

\* C10: createAppointment stores no row on a date with a full-day exception of
\* the doctor, and none that meets a partial exception of the doctor.
C10_CommitsOutsideExceptions ==
    [][\A p \in Procs :
          Commits(p) => ~BlockedByException(calls[p].req.doctorId,
                                            calls[p].req.startTime,
                                            calls[p].req.endTime)]_vars

(***************************************************************************)
(* Rescheduling and cancelling (AppointmentService, appointment controller)*)
(*                                                                         *)
(* An appointment's id is its row number.  An absent field of the update   *)
(* data is "" (doctorId, status) or NULL (startTime, endTime); iso tells   *)
(* whether the time strings are written as Date.toISOString writes them.   *)
(***************************************************************************)

UpdateData(doctorId, startTime, endTime, status, iso) ==
    [doctorId |-> doctorId, startTime |-> startTime, endTime |-> endTime,
     status |-> status, iso |-> iso]

\* A call between two awaits: the id, the data, and the row as it was read.
Working(pc, id, data, appointment) ==
    [pc |-> pc, id |-> id, data |-> data, appointment |-> appointment]

Exists(id) == id \in 1..Len(appointments)

\* appointmentData.startTime !== appointment.startTime.toISOString()
DiffersAsString(data, time, stored) == time # NULL /\ (time # stored \/ ~data.iso)

\* updateAppointment: the doctor or a time is being changed
ChangesSlot(data, appointment) ==
    \/ data.doctorId # "" /\ data.doctorId # appointment.doctorId
    \/ DiffersAsString(data, data.startTime, appointment.startTime)
    \/ DiffersAsString(data, data.endTime, appointment.endTime)

\* updateAppointment: the doctor and interval the conflict query is made for
Target(data, appointment) ==
    [doctorId |-> IF data.doctorId # "" THEN data.doctorId ELSE appointment.doctorId,
     startTime |-> IF data.startTime # NULL THEN data.startTime ELSE appointment.startTime,
     endTime |-> IF data.endTime # NULL THEN data.endTime ELSE appointment.endTime]

\* updateAppointment: prisma.appointment.findFirst finds a row other than id
conflictingOther(id, doctorId, startTime, endTime) ==
    \E j \in 1..Len(appointments) :
        /\ j # id
        /\ appointments[j].doctorId = doctorId
        /\ appointments[j].status # "CANCELLED"
        /\ ConflictClauses(appointments[j], startTime, endTime)

\* updateData: only the fields that are provided
Updated(row, data) ==
    [row EXCEPT
        !.doctorId = IF data.doctorId # "" THEN data.doctorId ELSE @,
        !.startTime = IF data.startTime # NULL THEN data.startTime ELSE @,
        !.endTime = IF data.endTime # NULL THEN data.endTime ELSE @,
        !.status = IF data.status # "" THEN data.status ELSE @]

\* reason || "No reason provided"
ReasonGiven(reason) == IF reason = "" THEN "No reason provided" ELSE reason

\* updateAppointment up to its second store read (or its write).
UpdateBegin(p, id, data) ==
    /\ Pending(p, "idle")
    /\ calls' = [calls EXCEPT ![p] =
          IF ~Exists(id) THEN Idle("NotFound")
          ELSE IF data.startTime # NULL /\ data.endTime # NULL
                    /\ data.startTime >= data.endTime
            THEN Idle("InvalidInterval")
          ELSE IF ChangesSlot(data, appointments[id])
            THEN Working("updateFindConflict", id, data, appointments[id])
          ELSE Working("updateRow", id, data, appointments[id])]
    /\ UNCHANGED <<appointments, schedules, doctorSchedules, scheduleExceptions, now, q>>

\* The conflict check made after the new doctor and times have been stored.
UpdateFindConflictAfterWrite(p) ==
    /\ Pending(p, "updateFindConflict")
    /\ LET c == calls[p]
           t == Target(c.data, c.appointment)
       IN  /\ appointments' = [appointments EXCEPT ![c.id] = Updated(@, c.data)]
           /\ calls' = [calls EXCEPT ![p] =
                 IF conflictingOther(c.id, t.doctorId, t.startTime, t.endTime)
                   THEN Idle("AppointmentConflict")
                   ELSE [c EXCEPT !.pc = "updateRow"]]
    /\ UNCHANGED <<schedules, doctorSchedules, scheduleExceptions, now, q>>

\* await prisma.appointment.findFirst and the throw that may follow it
UpdateFindConflict(p) ==
    /\ Pending(p, "updateFindConflict")
    /\ LET c == calls[p]
           t == Target(c.data, c.appointment)
       IN  calls' = [calls EXCEPT ![p] =
              IF conflictingOther(c.id, t.doctorId, t.startTime, t.endTime)
                THEN Idle("AppointmentConflict")
                ELSE [c EXCEPT !.pc = "updateRow"]]
    /\ UNCHANGED <<appointments, schedules, doctorSchedules, scheduleExceptions, now, q>>

\* await prisma.appointment.update, the notification block and the return.
\* notificationService has no sendAppointmentStatusUpdate: the call throws
\* and the catch swallows it.
UpdateRow(p) ==
    /\ Pending(p, "updateRow")
    /\ LET c == calls[p]
       IN  IF c.data.doctorId # "" /\ c.data.doctorId \notin KnownDoctors
             THEN /\ calls' = [calls EXCEPT ![p] = Idle("PrismaError")]
                  /\ UNCHANGED appointments
             ELSE /\ appointments' = [appointments EXCEPT ![c.id] = Updated(@, c.data)]
                  /\ calls' = [calls EXCEPT ![p] =
                        Done("updated", <<>>,
                             c.data.status # "" /\ c.data.status # c.appointment.status)]
    /\ UNCHANGED <<schedules, doctorSchedules, scheduleExceptions, now, q>>

\* cancelAppointment up to its write.
CancelBegin(p, id, reason) ==
    /\ Pending(p, "idle")
    /\ calls' = [calls EXCEPT ![p] =
          IF ~Exists(id) THEN Idle("NotFound")
          ELSE IF appointments[id].status = "CANCELLED" THEN Idle("AlreadyCancelled")
          ELSE IF appointments[id].startTime < now THEN Idle("PastAppointment")
          ELSE Working("cancelRow", id, reason, appointments[id])]
    /\ UNCHANGED <<appointments, schedules, doctorSchedules, scheduleExceptions, now, q>>

\* cancelAppointment writing the status in lower case.
CancelRowLowercase(p) ==
    /\ Pending(p, "cancelRow")
    /\ LET c == calls[p]
       IN  appointments' = [appointments EXCEPT ![c.id] =
              [@ EXCEPT !.status = "cancelled",
                        !.cancellationReason = ReasonGiven(c.data)]]
    /\ calls' = [calls EXCEPT ![p] = Done("cancelled", <<>>, TRUE)]
    /\ UNCHANGED <<schedules, doctorSchedules, scheduleExceptions, now, q>>

\* await prisma.appointment.update, the notification block and the return.
\* sendAppointmentCancellation(appointment, reason) is called with the e-mail
\* address first, so it throws on practice.name; the catch swallows it.
CancelRow(p) ==
    /\ Pending(p, "cancelRow")
    /\ LET c == calls[p]
       IN  appointments' = [appointments EXCEPT ![c.id] =
              [@ EXCEPT !.status = "CANCELLED",
                        !.cancellationReason = ReasonGiven(c.data)]]
    /\ calls' = [calls EXCEPT ![p] = Done("cancelled", <<>>, TRUE)]
    /\ UNCHANGED <<schedules, doctorSchedules, scheduleExceptions, now, q>>

\* Whether prisma accepts the status for the column: any of the enum's values,
\* any text at all when the column is a text column.
StatusAccepted(status, statusIsText) == status = "" \/ status \in Statuses \/ statusIsText

\* Controller createAppointment: appointmentService has no
\* checkDoctorAvailability, so the call throws before the row is created.
ControllerCreate(p, req) ==
    /\ Pending(p, "idle")
    /\ calls' = [calls EXCEPT ![p] =
          IF req.doctorId = "" \/ req.patientId = "" \/ req.serviceId = ""
            THEN Idle("MissingFields")
            ELSE Idle("TypeError")]
    /\ UNCHANGED <<appointments, schedules, doctorSchedules, scheduleExceptions, now, q>>

\* Controller updateAppointment up to its write.
ControllerUpdateBegin(p, id, data) ==
    /\ Pending(p, "idle")
    /\ calls' = [calls EXCEPT ![p] =
          IF ~Exists(id) THEN Idle("NotFound")
          ELSE IF \/ data.startTime # NULL /\ data.startTime # appointments[id].startTime
                  \/ data.doctorId # "" /\ data.doctorId # appointments[id].doctorId
            THEN Idle("TypeError")
          ELSE Working("controllerUpdateRow", id, data, appointments[id])]
    /\ UNCHANGED <<appointments, schedules, doctorSchedules, scheduleExceptions, now, q>>

\* Controller updateAppointment: which notification call follows the write.
\* sendAppointmentCancellation gets a row without its practice and throws on
\* practice.name; notificationService has no sendAppointmentUpdate.
UpdateNotificationThrows(data, existingAppointment) ==
    /\ data.status # ""
    /\ data.status # existingAppointment.status
    /\ \/ data.status = "cancelled"
       \/ data.status = "rescheduled"
       \/ DiffersAsString(data, data.startTime, existingAppointment.startTime)

\* Controller updateAppointment: await prisma.appointment.update, the
\* notification and the response.
ControllerUpdateRow(p, statusIsText) ==
    /\ Pending(p, "controllerUpdateRow")
    /\ LET c == calls[p]
       IN  IF ~StatusAccepted(c.data.status, statusIsText)
             THEN /\ calls' = [calls EXCEPT ![p] = Idle("PrismaError")]
                  /\ UNCHANGED appointments
             ELSE /\ appointments' = [appointments EXCEPT ![c.id] = Updated(@, c.data)]
                  /\ calls' = [calls EXCEPT ![p] =
                        IF UpdateNotificationThrows(c.data, c.appointment)
                          THEN Done("TypeError", <<>>, TRUE)
                          ELSE Idle("updated")]
    /\ UNCHANGED <<schedules, doctorSchedules, scheduleExceptions, now, q>>

\* Controller cancelAppointment up to its write.
ControllerCancelBegin(p, id, reason) ==
    /\ Pending(p, "idle")
    /\ calls' = [calls EXCEPT ![p] =
          IF ~Exists(id) THEN Idle("NotFound")
          ELSE Working("controllerCancelRow", id, reason, appointments[id])]
    /\ UNCHANGED <<appointments, schedules, doctorSchedules, scheduleExceptions, now, q>>

\* Controller cancelAppointment: await prisma.appointment.update, the
\* notification and the response.  The notification service catches a failed
\* delivery itself, so the send returns whether or not the mail went out.
ControllerCancelRow(p, statusIsText, delivered) ==
    /\ Pending(p, "controllerCancelRow")
    /\ LET c == calls[p]
       IN  IF ~StatusAccepted("cancelled", statusIsText)
             THEN /\ calls' = [calls EXCEPT ![p] = Idle("PrismaError")]
                  /\ UNCHANGED appointments
             ELSE /\ appointments' = [appointments EXCEPT ![c.id] =
                        [@ EXCEPT !.status = "cancelled",
                                  !.cancellationReason = ReasonGiven(c.data),
                                  !.cancelledAt = now]]
                  /\ calls' = [calls EXCEPT ![p] =
                        Done("cancelled",
                             IF delivered THEN <<"AppointmentCancellation">> ELSE <<>>,
                             FALSE)]
    /\ UNCHANGED <<schedules, doctorSchedules, scheduleExceptions, now, q>>

(***************************************************************************)
(* One caller booking, rescheduling and cancelling                         *)
(***************************************************************************)

\* Both doctors have posted 09:00-17:00 for day 0 and work 09:00-17:00 on
\* its day of the week; the clock stands at 08:00.
InitLifecycle ==
    /\ appointments = <<>>
    /\ schedules = {ScheduleRow(d, 0, Clock(9, 0), Clock(17, 0), TRUE, NULL) : d \in Doctors}
    /\ doctorSchedules =
          {WeeklyRow(d, GetDay(0), Clock(9, 0), Clock(17, 0), TRUE, NULL, NULL) : d \in Doctors}
    /\ scheduleExceptions = {}
    /\ now = At(0, 8, 0)
    /\ calls = [p \in Procs |-> Idle("none")]
    /\ q = NoQuery

LifecycleRequests ==
    {BookingRequest("d1", "p1", "s1", At(0, 10, 0), At(0, 10, 30), "PENDING"),
     BookingRequest("d1", "p1", "s1", At(0, 11, 0), At(0, 11, 30), "CONFIRMED"),
     BookingRequest("d1", "p1", "s1", At(0, 10, 15), At(0, 17, 15), "PENDING")}

Ids == 1..MaxAppointments

\* The data of the service's updateAppointment calls: three moves, an inverted
\* interval and two changes of status.
ServiceUpdates ==
    {UpdateData("", At(0, 11, 0), At(0, 11, 30), "", TRUE),
     UpdateData("", At(0, 10, 15), At(0, 10, 45), "", TRUE),
     UpdateData("", At(0, 17, 0), At(0, 17, 30), "", TRUE),
     UpdateData("", At(0, 11, 30), At(0, 11, 0), "", TRUE),
     UpdateData("", NULL, NULL, "CONFIRMED", TRUE),
     UpdateData("", NULL, NULL, "NO_SHOW", TRUE)}

\* The bodies of the controller's updateAppointment requests: a move, and a
\* cancellation that repeats the start time without its milliseconds.
ControllerUpdates ==
    {UpdateData("", At(0, 11, 0), At(0, 11, 30), "", TRUE),
     UpdateData("", At(0, 10, 0), NULL, "CANCELLED", FALSE)}

ServiceReasons == {"moved"}

ControllerReasons == {""}

Caller == "c1"

NextLifecycle ==
    \/ \E req \in LifecycleRequests : BeginCreate(Caller, req)
    \/ FindConflict(Caller)
    \/ FindSchedule(Caller)
    \/ CreateRow(Caller)
    \/ \E id \in Ids, data \in ServiceUpdates : UpdateBegin(Caller, id, data)
    \/ UpdateFindConflict(Caller)
    \/ UpdateRow(Caller)
    \/ \E id \in Ids, reason \in ServiceReasons : CancelBegin(Caller, id, reason)
    \/ CancelRow(Caller)
    \/ \E req \in LifecycleRequests : ControllerCreate(Caller, req)
    \/ \E id \in Ids, data \in ControllerUpdates : ControllerUpdateBegin(Caller, id, data)
    \/ \E statusIsText \in BOOLEAN : ControllerUpdateRow(Caller, statusIsText)
    \/ \E id \in Ids, reason \in ControllerReasons : ControllerCancelBegin(Caller, id, reason)
    \/ \E statusIsText, delivered \in BOOLEAN : ControllerCancelRow(Caller, statusIsText, delivered)

SpecLifecycle == InitLifecycle /\ [][NextLifecycle]_vars

(***************************************************************************)
(* Properties of booking, rescheduling and cancelling                      *)
(***************************************************************************)

\* The step in which the call of p ends, with the result r.
EndsWith(p, r) ==
    ~Pending(p, "idle") /\ calls'[p].pc = "idle" /\ calls'[p].result = r

\* C11: the first violated precondition is the one reported, and working hours
\* come before the appointment conflict: a createAppointment call turned down
\* for an appointment conflict is for an interval inside the doctor's hours.
C11_WorkingHoursBeforeConflict ==
    [][\A p \in Procs :
          (Pending(p, "findConflict") /\ EndsWith(p, "AppointmentConflict")) =>
              \E s \in BookingSchedules(calls[p].req.doctorId, calls[p].req.startTime) :
                  WithinSchedule(s, calls[p].req.startTime, calls[p].req.endTime)]_vars

\* The errors createAppointment throws.
CreateErrors ==
    {"MissingFields", "InvalidInterval", "PastDate", "DoctorNotFound", "ServiceNotFound",
     "PatientNotFound", "AppointmentConflict", "OutsideWorkingHours"}

\* C12: a createAppointment call that ends in an error has stored nothing and
\* sent nothing: only the step that returns the created appointment changes
\* the appointment store, and a call that ends in an error has sent no
\* notification.
C12_RejectionLeavesNoTrace ==
    [][\A p \in Procs :
          /\ (calls'[p] # calls[p] /\ ~Commits(p)) => appointments' = appointments
          /\ (calls'[p] # calls[p] /\ calls'[p].pc = "idle"
                /\ calls'[p].result \in CreateErrors) => calls'[p].notified = <<>>]_vars

\* C12 witness: with an appointment stored, one call has been turned down for
\* working hours and another for a conflict.
C12_Witness ==
    /\ Len(appointments) = 1
    /\ calls["c1"] = Idle("OutsideWorkingHours")
    /\ calls["c2"] = Idle("AppointmentConflict")

\* The results that report success to the caller.
Successes == {"created", "updated", "cancelled"}

\* C13: when a call has written the appointment store and a notification then
\* fails, the caller still gets a success: no call that changed a row ends
\* in an error.
C13_WriteThenSuccess ==
    [][\A p \in Procs :
          (calls'[p] # calls[p] /\ appointments' # appointments) =>
              calls'[p].result \in Successes]_vars

\* The statuses the two cancelling paths write.
Cancelled == {"CANCELLED", "cancelled"}

\* C14: a cancelAppointment call, of the service or of the controller, that
\* found the appointment already cancelled neither rewrites the row nor sends
\* a cancellation notification.
C14_CancelIsIdempotent ==
    [][\A p \in Procs :
          (/\ calls[p].pc \in {"cancelRow", "controllerCancelRow"}
           /\ calls[p].appointment.status \in Cancelled
           /\ calls'[p] # calls[p]) =>
              /\ appointments' = appointments
              /\ calls'[p].notified = <<>>]_vars

\* The changes of status the appointment life cycle allows.
AllowedTransitions ==
    {<<"PENDING", "CONFIRMED">>, <<"PENDING", "CANCELLED">>, <<"CONFIRMED", "CANCELLED">>,
     <<"CONFIRMED", "COMPLETED">>, <<"CONFIRMED", "NO_SHOW">>}

\* C15: the status of a stored appointment changes only along PENDING ->
\* CONFIRMED, PENDING -> CANCELLED, CONFIRMED -> CANCELLED, CONFIRMED ->
\* COMPLETED, CONFIRMED -> NO_SHOW; CANCELLED, COMPLETED and NO_SHOW are final.
C15_StatusTransitions ==
    [][\A i \in 1..Len(appointments) :
          appointments'[i].status # appointments[i].status =>
              <<appointments[i].status, appointments'[i].status>> \in AllowedTransitions]_vars

\* Some row other than row id keeps the resolver from reporting the interval free.
OtherOverlapping(id, doctorId, start, end) ==
    \E j \in 1..Len(appointments) :
        /\ j # id
        /\ appointments[j].doctorId = doctorId
        /\ appointments[j].status \notin NonBlocking
        /\ appointments[j].startTime < end
        /\ appointments[j].endTime > start

\* Row id does not count against its own interval: the resolver reports the
\* interval free whenever the weekly schedule covers it, no exception blocks
\* it and no other appointment overlaps it; the row is not among those whose
\* ranges getAvailableTimeSlots removes; createAppointment's conflict query
\* finds a row only if updateAppointment's query, which leaves the row out,
\* finds one.
Freed(id) ==
    LET a == appointments[id]
    IN  /\ isTimeSlotAvailable(a.doctorId, a.startTime, a.endTime) =
              (/\ CoveringSchedule(a.doctorId, a.startTime, a.endTime)
               /\ ~BlockedByException(a.doctorId, a.startTime, a.endTime)
               /\ ~OtherOverlapping(id, a.doctorId, a.startTime, a.endTime))
        /\ id \notin SlotAppointments(a.doctorId, StartOfDay(a.startTime))
        /\ conflictingAppointment(a.doctorId, a.startTime, a.endTime) =>
              conflictingOther(id, a.doctorId, a.startTime, a.endTime)

\* C16: in the state right after AppointmentService.cancelAppointment has
\* succeeded on appointment A, the resolver reports A's interval free (subject
\* to the schedule, the exceptions and the other appointments) and a
\* createAppointment for A's doctor and interval is not rejected because of A.
C16_CancelledFreesInterval ==
    [][\A p \in Procs, id \in Ids :
          (Pending(p, "cancelRow") /\ calls[p].id = id /\ EndsWith(p, "cancelled")) =>
              Freed(id)']_vars

\* The service has cancelled the 10:00-10:30 appointment, the resolver reports
\* the interval free, and the interval has been booked again.
C16_Witness ==
    /\ Len(appointments) = 2
    /\ appointments[1].status = "CANCELLED"
    /\ appointments[1].cancellationReason = "moved"
    /\ appointments[2].status = "PENDING"
    /\ appointments[2].doctorId = appointments[1].doctorId
    /\ appointments[2].startTime = appointments[1].startTime
    /\ appointments[2].endTime = appointments[1].endTime
    /\ ~isTimeSlotAvailable("d1", At(0, 10, 0), At(0, 10, 30))
    /\ isTimeSlotAvailable("d1", At(0, 11, 0), At(0, 11, 30))

\* C17: an appointment with status NO_SHOW or CANCELLED blocks nothing:
\* createAppointment and updateAppointment reject a request for a conflicting
\* appointment only if an appointment of the doctor whose status is neither
\* CANCELLED nor NO_SHOW overlaps the requested interval, as the resolver's
\* isTimeSlotAvailable and getAvailableTimeSlots do.
C17_NoShowDoesNotBlock ==
    [][\A p \in Procs :
          /\ (Pending(p, "findConflict") /\ EndsWith(p, "AppointmentConflict")) =>
                OverlappingAppointment(calls[p].req.doctorId, calls[p].req.startTime,
                                       calls[p].req.endTime)
          /\ (Pending(p, "updateFindConflict") /\ EndsWith(p, "AppointmentConflict")) =>
                LET t == Target(calls[p].data, calls[p].appointment)
                IN  OtherOverlapping(calls[p].id, t.doctorId, t.startTime, t.endTime)]_vars

\* The errors of updateAppointment that the calls of this model meet before
\* the write: the three of the service, and the controller's call of a
\* function the service does not have.
UpdateErrors == {"NotFound", "InvalidInterval", "AppointmentConflict", "TypeError"}

\* C18: a failed reschedule leaves the store untouched: a step of
\* updateAppointment that ends the call with not found, end not after start
\* or a conflicting appointment changes no appointment, and at the conflict the
\* appointment still has every field it had when the call began.
C18_FailedRescheduleChangesNothing ==
    [][\A p \in Procs :
          /\ (Pending(p, "idle") /\ calls'[p].pc = "idle" /\ calls'[p].result \in UpdateErrors) =>
                appointments' = appointments
          /\ (Pending(p, "idle") /\ calls'[p].pc \in {"updateFindConflict", "updateRow"}) =>
                appointments' = appointments
          /\ (Pending(p, "updateFindConflict") /\ calls'[p].pc # "updateRow") =>
                /\ calls'[p] = Idle("AppointmentConflict")
                /\ appointments' = appointments
                /\ appointments[calls[p].id] = calls[p].appointment]_vars

\* Both appointments are stored as they were booked, and an updateAppointment
\* with its end before its start has been rejected.
C18_Witness ==
    /\ appointments = <<AppointmentRow("d1", At(0, 10, 0), At(0, 10, 30), "PENDING"),
                        AppointmentRow("d1", At(0, 11, 0), At(0, 11, 30), "CONFIRMED")>>
    /\ calls[Caller] = Idle("InvalidInterval")

\* Row id meets the preconditions of a booking: its end is after its start,
\* its start is not in the past, an entry of the weekly schedule covers it, no
\* exception intersects it and no other appointment of its doctor overlaps it.
MeetsPreconditions(id) ==
    LET a == appointments[id]
    IN  /\ a.startTime < a.endTime
        /\ a.startTime >= now
        /\ CoveringSchedule(a.doctorId, a.startTime, a.endTime)
        /\ ~BlockedByException(a.doctorId, a.startTime, a.endTime)
        /\ ~OtherOverlapping(id, a.doctorId, a.startTime, a.endTime)

\* C19: updateAppointment commits a change of doctor, startTime or endTime
\* only if the appointment, as moved, meets every precondition of a booking,
\* the appointment itself left out of the overlap check.
C19_RescheduleRunsPreconditions ==
    [][\A id \in 1..Len(appointments) :
          (\/ appointments'[id].doctorId # appointments[id].doctorId
           \/ appointments'[id].startTime # appointments[id].startTime
           \/ appointments'[id].endTime # appointments[id].endTime) =>
              MeetsPreconditions(id)']_vars

(***************************************************************************)
(* Rescheduling beside a booking or another rescheduling                   *)
(***************************************************************************)

\* Doctor d2 has one appointment at 09:00; both doctors have posted
\* 09:00-17:00 for day 0; the clock stands at 08:00.
InitReschedule ==
    /\ appointments = <<AppointmentRow("d2", At(0, 9, 0), At(0, 9, 30), "CONFIRMED")>>
    /\ schedules = {ScheduleRow(d, 0, Clock(9, 0), Clock(17, 0), TRUE, NULL) : d \in Doctors}
    /\ doctorSchedules = {}
    /\ scheduleExceptions = {}
    /\ now = At(0, 8, 0)
    /\ calls = [p \in Procs |-> Idle("none")]
    /\ q = NoQuery

RescheduleRequests ==
    {BookingRequest("d1", "p1", "s1", At(0, 10, 0), At(0, 10, 30), "PENDING"),
     BookingRequest("d1", "p1", "s1", At(0, 14, 0), At(0, 14, 30), "PENDING")}

\* A move to doctor d1 at 10:00-10:30, and a move to 10:15-10:45.
RescheduleUpdates ==
    {UpdateData("d1", At(0, 10, 0), At(0, 10, 30), "", TRUE),
     UpdateData("", At(0, 10, 15), At(0, 10, 45), "", TRUE)}

\* The caller that books; both callers reschedule.
Booker == "c1"

NextReschedule ==
    \/ \E req \in RescheduleRequests : BeginCreate(Booker, req)
    \/ FindConflict(Booker)
    \/ FindSchedule(Booker)
    \/ CreateRow(Booker)
    \/ \E p \in Procs, id \in Ids, data \in RescheduleUpdates : UpdateBegin(p, id, data)
    \/ \E p \in Procs : UpdateFindConflict(p)
    \/ \E p \in Procs : UpdateRow(p)

SpecReschedule == InitReschedule /\ [][NextReschedule]_vars

\* Rows i and j are two appointments of one doctor, neither cancelled, that overlap.
DoubleBooked(i, j) ==
    /\ i < j
    /\ j <= Len(appointments)
    /\ appointments[i].doctorId = appointments[j].doctorId
    /\ appointments[i].status # "CANCELLED"
    /\ appointments[j].status # "CANCELLED"
    /\ Overlap(appointments[i].startTime, appointments[i].endTime,
               appointments[j].startTime, appointments[j].endTime)

\* C20: an updateAppointment that changes the time or the doctor is atomic
\* beside a createAppointment or another updateAppointment: whatever the
\* interleaving of their reads and writes, the step in which either of them
\* writes its row leaves no two non-cancelled appointments of one doctor
\* overlapping.
C20_RescheduleIsAtomic ==
    [][\A p \in Procs :
          (Commits(p) \/ (Pending(p, "updateRow") /\ EndsWith(p, "updated"))) =>
              \A i, j \in Ids : ~DoubleBooked(i, j)']_vars

(***************************************************************************)
(* Properties of the free ranges the resolver returns                      *)
(***************************************************************************)

\* The ranges are non-empty and no two of them on one day overlap.
ProperAndDisjoint(ranges) ==
    /\ \A k \in 1..Len(ranges) : ranges[k].start < ranges[k].end
    /\ \A j, k \in 1..Len(ranges) :
          (j < k /\ DayOf(ranges[j].start) = DayOf(ranges[k].start)) =>
              (ranges[j].end <= ranges[k].start \/ ranges[k].end <= ranges[j].start)

\* The ranges getDoctorSchedule returns, as ranges.
ScheduleRanges(result) == [k \in 1..Len(result) |-> Range(result[k].startTime, result[k].endTime)]

\* C21: every free range the resolver returns for one doctor and one day has
\* its start before its end, and no two free ranges returned for the same day
\* overlap, whatever the weekly entries, exceptions and appointments.
C21_FreeRangesDisjoint ==
    /\ Returned("getAvailableTimeSlots") => ProperAndDisjoint(q.ranges)
    /\ Returned("getDoctorSchedule") => ProperAndDisjoint(ScheduleRanges(q.result))

\* The weekly entry is one of the doctor's for the day of the week of `day`,
\* is available, and its effective window contains that day.
AppliesOn(s, doctorId, day) ==
    /\ s.doctorId = doctorId
    /\ s.dayOfWeek = GetDay(At(day, 0, 0))
    /\ s.isAvailable
    /\ (s.effectiveDate = NULL \/ DayOf(s.effectiveDate) <= day)
    /\ (s.expiryDate = NULL \/ DayOf(s.expiryDate) >= day)

\* The range lies in the working period of a weekly entry that applies on its day.
FromApplicableEntry(doctorId, range) ==
    \E s \in doctorSchedules :
        /\ AppliesOn(s, doctorId, DayOf(range.start))
        /\ AtClock(range.start, s.startTime) <= range.start
        /\ range.end <= AtClock(range.start, s.endTime)

\* C22: the availability the resolver reports for a day D comes only from the
\* weekly entries of D's day of the week that are available and whose
\* effective window contains D itself: every free range returned lies in the
\* working period of such an entry.
C22_OnlyEntriesEffectiveOnTheDay ==
    /\ Returned("getAvailableTimeSlots") =>
          \A k \in 1..Len(q.ranges) : FromApplicableEntry(q.doctorId, q.ranges[k])
    /\ Returned("getDoctorSchedule") =>
          \A k \in 1..Len(q.result) :
              FromApplicableEntry(q.doctorId, Range(q.result[k].startTime, q.result[k].endTime))

\* [a, b) and the non-empty [s, e) have an instant in common.
Intersects(a, b, s, e) == s < e /\ a < e /\ s < b

\* The range is clear of every appointment of the doctor that occupies time
\* and of every partial exception of the doctor on the range's day.
ClearOfBookings(doctorId, a, b) ==
    /\ \A i \in 1..Len(appointments) :
          (appointments[i].doctorId = doctorId /\ appointments[i].status \notin NonBlocking) =>
              ~Intersects(a, b, appointments[i].startTime, appointments[i].endTime)
    /\ \A e \in scheduleExceptions :
          (e.doctorId = doctorId /\ ~e.isFullDay /\ DayOf(e.date) = DayOf(a)) =>
              ~Intersects(a, b, AtClock(a, e.startTime), AtClock(a, e.endTime))

\* C23: no free range and no slot the resolver returns intersects an
\* appointment of the doctor whose status is neither CANCELLED nor NO_SHOW, or
\* a partial exception of the doctor on that day, appointments that only
\* partly lie in the queried day or date range included.
C23_FreeRangesClearOfBookings ==
    /\ Returned("getAvailableTimeSlots") =>
          /\ \A k \in 1..Len(q.ranges) :
                ClearOfBookings(q.doctorId, q.ranges[k].start, q.ranges[k].end)
          /\ \A k \in 1..Len(q.result) :
                ClearOfBookings(q.doctorId, q.result[k].startTime, q.result[k].endTime)
    /\ Returned("getDoctorSchedule") =>
          \A k \in 1..Len(q.result) :
              ClearOfBookings(q.doctorId, q.result[k].startTime, q.result[k].endTime)


(***************************************************************************)
(* Schedule edits (schedule.controller, ScheduleService.deleteScheduleItem) *)
(***************************************************************************)

\* The statuses the delete operations of the schedule controller look for.
ScheduledStatuses == {"scheduled", "confirmed"}

\* deleteSchedule: prisma.appointment.findMany (row numbers)
DeleteConflicts(schedule) ==
    {i \in 1..Len(appointments) :
        /\ appointments[i].doctorId = schedule.doctorId
        /\ appointments[i].startTime >= At(schedule.date, 0, 0) + schedule.startTime
        /\ appointments[i].endTime <= At(schedule.date, 0, 0) + schedule.endTime
        /\ appointments[i].status \in ScheduledStatuses}

\* deleteSchedule of the schedule controller.  A status column that is an
\* enum refuses the query for 'scheduled' and 'confirmed'.
DeleteSchedule(schedule, statusIsText) ==
    /\ schedule \in schedules
    /\ statusIsText
    /\ DeleteConflicts(schedule) = {}
    /\ schedules' = schedules \ {schedule}
    /\ UNCHANGED <<appointments, doctorSchedules, scheduleExceptions, now, calls, q>>

\* deleteSchedulesByDate: prisma.appointment.findMany (row numbers)
DeleteByDateConflicts(doctorId, date) ==
    {i \in 1..Len(appointments) :
        /\ appointments[i].doctorId = doctorId
        /\ appointments[i].startTime >= StartOfDay(date)
        /\ appointments[i].startTime <= EndOfDay(date)
        /\ appointments[i].status \in ScheduledStatuses}

\* deleteSchedulesByDate of the schedule controller.
DeleteSchedulesByDate(doctorId, date, statusIsText) ==
    /\ statusIsText
    /\ DeleteByDateConflicts(doctorId, date) = {}
    /\ schedules' = {s \in schedules : ~(s.doctorId = doctorId /\ s.date = DayOf(date))}
    /\ schedules' # schedules
    /\ UNCHANGED <<appointments, doctorSchedules, scheduleExceptions, now, calls, q>>

\* ScheduleService.deleteScheduleItem: the weekly entry is found and deleted.
DeleteScheduleItem(scheduleItem) ==
    /\ scheduleItem \in doctorSchedules
    /\ doctorSchedules' = doctorSchedules \ {scheduleItem}
    /\ UNCHANGED <<appointments, schedules, scheduleExceptions, now, calls, q>>

NextEdits ==
    \/ \E req \in LifecycleRequests : BeginCreate(Caller, req)
    \/ FindConflict(Caller)
    \/ FindSchedule(Caller)
    \/ CreateRow(Caller)
    \/ \E slot \in PostedSchedules :
          CreateOrUpdateSchedule(slot.doctorId, slot.date, slot.isAvailable)
    \/ \E schedule \in schedules, statusIsText \in BOOLEAN : DeleteSchedule(schedule, statusIsText)
    \/ \E d \in Doctors, statusIsText \in BOOLEAN :
          DeleteSchedulesByDate(d, At(0, 0, 0), statusIsText)
    \/ \E d \in Doctors : SetDoctorSchedule(d)
    \/ \E scheduleItem \in doctorSchedules : DeleteScheduleItem(scheduleItem)

\* The store of InitLifecycle, edited by the practice while one caller books.
SpecEdits == InitLifecycle /\ [][NextEdits]_vars

\* A non-cancelled appointment of the entry's doctor lies in the working time
\* of the dated schedule row.
BookedInSchedule(s) ==
    \E i \in 1..Len(appointments) :
        /\ appointments[i].doctorId = s.doctorId
        /\ appointments[i].status # "CANCELLED"
        /\ DayOf(appointments[i].startTime) = s.date
        /\ WithinSchedule(s, appointments[i].startTime, appointments[i].endTime)

\* A non-cancelled appointment of the entry's doctor lies in the working time
\* of the weekly entry.
BookedInWeeklyEntry(s) ==
    \E i \in 1..Len(appointments) :
        /\ appointments[i].doctorId = s.doctorId
        /\ appointments[i].status # "CANCELLED"
        /\ GetDay(appointments[i].startTime) = s.dayOfWeek
        /\ s.startTime <= ClockOf(appointments[i].startTime)
        /\ ClockOf(appointments[i].endTime) <= s.endTime
        /\ DayOf(appointments[i].endTime) = DayOf(appointments[i].startTime)

PracticeOf(doctorId) == "pr1"

\* An item of scheduleItems; the times are "HH:MM" strings, which compare as
\* the minutes of the day they name.
ScheduleItem(dayOfWeek, startTime, endTime) ==
    [dayOfWeek |-> dayOfWeek, startTime |-> startTime, endTime |-> endTime,
     isAvailable |-> TRUE, effectiveDate |-> NULL, expiryDate |-> NULL]

\* tx.doctorSchedule.create: the row made of an item
ItemRow(doctorId, item) ==
    WeeklyRow(doctorId, item.dayOfWeek, item.startTime, item.endTime, item.isAvailable,
              item.effectiveDate, item.expiryDate)

\* A setDoctorSchedule call inside its transaction: the items, the number of
\* them processed, and the rows the transaction has created and not committed.
InTransaction(pc, doctorId, scheduleItems, done, createdSlots) ==
    [pc |-> pc, doctorId |-> doctorId, scheduleItems |-> scheduleItems, done |-> done,
     createdSlots |-> createdSlots]

\* setDoctorSchedule to the doctor check that opens the transaction.
SetScheduleBegin(p, doctorId, practiceId, scheduleItems) ==
    /\ Pending(p, "idle")
    /\ calls' = [calls EXCEPT ![p] =
          IF doctorId \notin KnownDoctors \/ PracticeOf(doctorId) # practiceId
            THEN Idle("DoctorNotInPractice")
            ELSE InTransaction("scheduleItem", doctorId, scheduleItems, 0, {})]
    /\ UNCHANGED <<appointments, schedules, doctorSchedules, scheduleExceptions, now, q>>

\* One pass of the loop writing to the store at once, outside the transaction.
SetScheduleItemUnprotected(p) ==
    /\ Pending(p, "scheduleItem")
    /\ calls[p].done < Len(calls[p].scheduleItems)
    /\ LET c == calls[p]
           item == c.scheduleItems[c.done + 1]
       IN  IF item.startTime >= item.endTime
             THEN /\ calls' = [calls EXCEPT ![p] = Idle("InvalidTimes")]
                  /\ UNCHANGED doctorSchedules
             ELSE /\ calls' = [calls EXCEPT ![p] =
                        [c EXCEPT !.done = @ + 1,
                                  !.createdSlots = @ \cup {ItemRow(c.doctorId, item)}]]
                  /\ doctorSchedules' = doctorSchedules \cup {ItemRow(c.doctorId, item)}
    /\ UNCHANGED <<appointments, schedules, scheduleExceptions, now, q>>

\* One pass of the loop over scheduleItems: the item is validated and created
\* inside the transaction; the throw rolls the transaction back.
SetScheduleItem(p) ==
    /\ Pending(p, "scheduleItem")
    /\ calls[p].done < Len(calls[p].scheduleItems)
    /\ LET c == calls[p]
           item == c.scheduleItems[c.done + 1]
       IN  calls' = [calls EXCEPT ![p] =
              IF item.startTime >= item.endTime
                THEN Idle("InvalidTimes")
                ELSE [c EXCEPT !.done = @ + 1,
                               !.createdSlots = @ \cup {ItemRow(c.doctorId, item)}]]
    /\ UNCHANGED <<appointments, schedules, doctorSchedules, scheduleExceptions, now, q>>

\* The transaction commits after the last item and the call returns.
SetScheduleCommit(p) ==
    /\ Pending(p, "scheduleItem")
    /\ calls[p].done = Len(calls[p].scheduleItems)
    /\ doctorSchedules' = doctorSchedules \cup calls[p].createdSlots
    /\ calls' = [calls EXCEPT ![p] = Idle("scheduleSet")]
    /\ UNCHANGED <<appointments, schedules, scheduleExceptions, now, q>>

MaxBatch == 3       \* items in one setDoctorSchedule call

InitWeekly ==
    /\ appointments = <<>>
    /\ schedules = {}
    /\ doctorSchedules = {}
    /\ scheduleExceptions = {}
    /\ now = At(0, 8, 0)
    /\ calls = [p \in Procs |-> Idle("none")]
    /\ q = NoQuery

\* The items of the batches: two proper ones, one that ends before it starts
\* and one that is empty.
MorningItem == ScheduleItem(1, Clock(9, 0), Clock(12, 0))
AfternoonItem == ScheduleItem(1, Clock(13, 0), Clock(17, 0))
InvertedItem == ScheduleItem(2, Clock(17, 0), Clock(9, 0))
EmptyItem == ScheduleItem(2, Clock(9, 0), Clock(9, 0))

\* The batches handed to setDoctorSchedule; in each batch that has an invalid
\* item a valid item precedes it.
Batches ==
    {b \in {<<>>, <<MorningItem>>, <<MorningItem, AfternoonItem>>,
            <<AfternoonItem, InvertedItem>>, <<MorningItem, EmptyItem, AfternoonItem>>} :
        Len(b) <= MaxBatch}

Practices == {"pr1", "pr2"}

NextWeekly ==
    \/ \E p \in Procs, d \in Doctors, practiceId \in Practices, b \in Batches :
          SetScheduleBegin(p, d, practiceId, b)
    \/ \E p \in Procs : SetScheduleItem(p)
    \/ \E p \in Procs : SetScheduleCommit(p)

SpecWeekly == InitWeekly /\ [][NextWeekly]_vars

\* C25: every stored weekly entry has startTime < endTime, and
\* setDoctorSchedule is all-or-nothing: a call that fails because the doctor
\* is not of the practice or because an item has startTime >= endTime stores
\* none of its items, and the store changes only when a call succeeds, by
\* all the rows of its batch at once.
C25_SetScheduleAllOrNothing ==
    [][/\ \A s \in doctorSchedules' : s.startTime < s.endTime
       /\ \A p \in Procs :
             (calls'[p] # calls[p] /\ calls'[p].pc = "idle" /\ calls'[p].result # "scheduleSet") =>
                 doctorSchedules' = doctorSchedules
       /\ \A p \in Procs :
             (calls'[p] # calls[p] /\ doctorSchedules' # doctorSchedules) =>
                 /\ Pending(p, "scheduleItem")
                 /\ calls'[p] = Idle("scheduleSet")
                 /\ doctorSchedules' = doctorSchedules \cup
                       {ItemRow(calls[p].doctorId, calls[p].scheduleItems[k]) :
                           k \in 1..Len(calls[p].scheduleItems)}]_vars

\* One call has failed on an invalid item that followed a valid one, the other
\* has stored its two items, and the store holds those two rows only.
C25_Witness ==
    /\ calls["c1"] = Idle("InvalidTimes")
    /\ calls["c2"] = Idle("scheduleSet")
    /\ doctorSchedules = {ItemRow("d1", MorningItem), ItemRow("d1", AfternoonItem)}

(***************************************************************************)
(* Sequential histories of the appointment service                         *)
(***************************************************************************)

\* Updates that give one bound of the interval only: a new start at 12:00, a
\* new end at 12:00.
PartialUpdates ==
    {UpdateData("", At(0, 12, 0), NULL, "", TRUE),
     UpdateData("", NULL, At(0, 12, 0), "", TRUE)}

\* One caller, one call of AppointmentService at a time.
NextService ==
    \/ \E req \in LifecycleRequests : BeginCreate(Caller, req)
    \/ FindConflict(Caller)
    \/ FindSchedule(Caller)
    \/ CreateRow(Caller)
    \/ \E id \in Ids, data \in ServiceUpdates \cup PartialUpdates : UpdateBegin(Caller, id, data)
    \/ UpdateFindConflict(Caller)
    \/ UpdateRow(Caller)
    \/ \E id \in Ids, reason \in ServiceReasons : CancelBegin(Caller, id, reason)
    \/ CancelRow(Caller)

SpecService == InitLifecycle /\ [][NextService]_vars

\* C26: in every state of a sequential history of createAppointment,
\* updateAppointment and cancelAppointment, no two appointments of one doctor
\* whose statuses are both neither CANCELLED nor NO_SHOW overlap.
C26_NoOverlapSequentially ==
    \A i, j \in 1..Len(appointments) :
        (/\ i < j
         /\ appointments[i].doctorId = appointments[j].doctorId
         /\ appointments[i].status \notin NonBlocking
         /\ appointments[j].status \notin NonBlocking) =>
            ~Overlap(appointments[i].startTime, appointments[i].endTime,
                     appointments[j].startTime, appointments[j].endTime)

\* C27: in every reachable state every stored appointment has its startTime
\* before its endTime, also after an updateAppointment that gives only one
\* of the two and takes the other from the stored row.
C27_StoredIntervalsProper ==
    \A i \in 1..Len(appointments) : appointments[i].startTime < appointments[i].endTime

(***************************************************************************)
(* The resolver beside the booking checks                                  *)
(***************************************************************************)

\* The store checks of createAppointment pass for the interval: the conflict
\* query finds nothing, and a row prisma.schedule.findFirst may return has the
\* interval inside its hours.
BookingAccepts(doctorId, startTime, endTime) ==
    /\ ~conflictingAppointment(doctorId, startTime, endTime)
    /\ \E schedule \in BookingSchedules(doctorId, startTime) :
          WithinSchedule(schedule, startTime, endTime)

\* The instants of the day of `date` that are a whole number of slot steps
\* after midnight.
SlotGrid(date) == {StartOfDay(date) + k * SlotStep : k \in 0..(MinutesPerDay \div SlotStep - 1)}

\* C28: on a store that nobody writes, every slot getAvailableTimeSlots
\* returns is accepted by isTimeSlotAvailable and by the checks of
\* createAppointment, and every interval of the duration that starts on the
\* slot grid and that those checks accept is among the slots returned.
C28_ResolverAgreesWithBooking ==
    Returned("getAvailableTimeSlots") =>
        /\ \A k \in 1..Len(q.result) :
              /\ isTimeSlotAvailable(q.doctorId, q.result[k].startTime, q.result[k].endTime)
              /\ BookingAccepts(q.doctorId, q.result[k].startTime, q.result[k].endTime)
        /\ \A t \in SlotGrid(q.date) :
              (/\ isTimeSlotAvailable(q.doctorId, t, t + q.duration)
               /\ BookingAccepts(q.doctorId, t, t + q.duration)) =>
                  \E k \in 1..Len(q.result) : q.result[k] = Slot(t, t + q.duration)

(***************************************************************************)
(* Two callers cancelling                                                  *)
(***************************************************************************)

CancelReasons == {"moved", ""}

NextCancel ==
    \/ \E req \in RescheduleRequests : BeginCreate(Booker, req)
    \/ FindConflict(Booker)
    \/ FindSchedule(Booker)
    \/ CreateRow(Booker)
    \/ \E p \in Procs, id \in Ids, reason \in CancelReasons : CancelBegin(p, id, reason)
    \/ \E p \in Procs : CancelRow(p)

\* The store of InitReschedule, with both callers cancelling.
SpecCancel == InitReschedule /\ [][NextCancel]_vars

\* C29: of two concurrent cancelAppointment calls for one appointment only
\* one performs the status update and the other is rejected as already
\* cancelled: no call completes a cancellation of an appointment that the store
\* already holds as CANCELLED.
C29_SingleCancellation ==
    [][\A p \in Procs :
          (Pending(p, "cancelRow") /\ EndsWith(p, "cancelled")) =>
              appointments[calls[p].id].status # "CANCELLED"]_vars

(***************************************************************************)
(* Partial exceptions as addScheduleException stores them                  *)
(***************************************************************************)

\* The ranges are non-empty, pairwise disjoint and inside the working period
\* of the weekly entry on the day of `date`.
WithinEntry(ranges, entry, date) ==
    /\ \A k \in 1..Len(ranges) :
          /\ ranges[k].start < ranges[k].end
          /\ AtClock(date, entry.startTime) <= ranges[k].start
          /\ ranges[k].end <= AtClock(date, entry.endTime)
    /\ \A j, k \in 1..Len(ranges) :
          j < k => (ranges[j].end <= ranges[k].start \/ ranges[k].end <= ranges[j].start)

\* C30: whatever partial exceptions addScheduleException has stored, one
\* with startTime >= endTime included, the free ranges the resolver derives
\* from one weekly entry are non-empty, pairwise disjoint and contained in
\* the entry's working period.
C30_ExceptionsKeepRangesProper ==
    (Returned("getAvailableTimeSlots")
        /\ Cardinality(SlotScheduleItems(q.doctorId, StartOfDay(q.date))) = 1) =>
            \A entry \in SlotScheduleItems(q.doctorId, StartOfDay(q.date)) :
                WithinEntry(q.ranges, entry, q.date)
=============================================================================
